---------------------------- MODULE Spec2Model ----------------------------
(***************************************************************************)
(* Model of backend/scalingLogic.js of the Kubernetes autoscaling          *)
(* simulator: the module-level simulation context (the population `users`  *)
(* and `simulationStartTime`), the tick simulateUserActivity, reset,       *)
(* distributeUsers, and the pure functions generateLoad, scaleReplicas,    *)
(* simulatePodUsage with the unit parsers.                                 *)
(*                                                                         *)
(* JavaScript numbers are modelled as exact rationals extended with NaN    *)
(* and the two infinities: [t, n, d] with t in {"fin","nan","pinf","ninf"} *)
(* and, for "fin", the value n/d in lowest terms with d > 0.  Rounding of  *)
(* IEEE doubles and the sign of zero are not modelled.                     *)
(***************************************************************************)
EXTENDS Integers, Sequences, FiniteSets, TLC

VARIABLES
    users,                \* the population array (meaningful when usersDefined)
    usersDefined,         \* whether the global binding `users` exists
    simulationStartTime,  \* the linear time origin, Null when unset
    now,                  \* the wall clock in seconds, as last read by a tick
    cfg,                  \* runtimeConfig.defaultLoadProfile of the last tick
    target,               \* targetUsers of the tick in progress / last tick
    pc,                   \* position of the tick: "idle", "grow", "shrink"
    lastOp,               \* the operation entered last
    fault,                \* whether the last operation raised an exception
    pods,                 \* the caller's current pod list
    issued,               \* history: the highest session number given since
                          \* the last reset, 0 when none was given
    call,                 \* arguments of a pure-function call
    ret                   \* its result

vars == << users, usersDefined, simulationStartTime, now, cfg, target,
           pc, lastOp, fault, pods, issued, call, ret >>

ctxVars == << users, usersDefined, simulationStartTime, now, cfg, target,
              pc, lastOp, fault, pods, issued >>

-----------------------------------------------------------------------------
(* JavaScript numbers *)

RECURSIVE GCD(_, _)
GCD(a, b) == IF b = 0 THEN a ELSE GCD(b, a % b)

Abs(i) == IF i < 0 THEN -i ELSE i

NaN == [t |-> "nan", n |-> 0, d |-> 1]

PInf == [t |-> "pinf", n |-> 0, d |-> 1]

NInf == [t |-> "ninf", n |-> 0, d |-> 1]

\* the rational n/d, d # 0, in lowest terms with a positive denominator
Fin(n, d) ==
    LET s == IF d < 0 THEN -1 ELSE 1
        g == GCD(Abs(n), Abs(d))
    IN  [t |-> "fin", n |-> (s * n) \div g, d |-> (s * d) \div g]

Num(i) == [t |-> "fin", n |-> i, d |-> 1]

IsFin(a) == a.t = "fin"

IsNaN(a) == a.t = "nan"

Sign(a) ==
    CASE a.t = "pinf" -> 1
      [] a.t = "ninf" -> -1
      [] a.t = "fin"  -> IF a.n > 0 THEN 1 ELSE IF a.n < 0 THEN -1 ELSE 0
      [] OTHER        -> 0

JNeg(a) ==
    CASE a.t = "fin"  -> Fin(-a.n, a.d)
      [] a.t = "pinf" -> NInf
      [] a.t = "ninf" -> PInf
      [] OTHER        -> NaN

\* a + b
JAdd(a, b) ==
    CASE IsNaN(a) \/ IsNaN(b)        -> NaN
      [] IsFin(a) /\ IsFin(b)        -> Fin(a.n * b.d + b.n * a.d, a.d * b.d)
      [] IsFin(a)                    -> b
      [] IsFin(b)                    -> a
      [] a.t = b.t                   -> a
      [] OTHER                       -> NaN

JSub(a, b) == JAdd(a, JNeg(b))

\* a * b
JMul(a, b) ==
    CASE IsNaN(a) \/ IsNaN(b)        -> NaN
      [] IsFin(a) /\ IsFin(b)        -> Fin(a.n * b.n, a.d * b.d)
      [] Sign(a) * Sign(b) = 0       -> NaN
      [] Sign(a) * Sign(b) > 0       -> PInf
      [] OTHER                       -> NInf

\* a / b
JDiv(a, b) ==
    CASE IsNaN(a) \/ IsNaN(b)        -> NaN
      [] IsFin(a) /\ IsFin(b) ->
            IF b.n # 0 THEN Fin(a.n * b.d, a.d * b.n)
            ELSE IF a.n = 0 THEN NaN
            ELSE IF a.n > 0 THEN PInf ELSE NInf
      [] IsFin(a)                    -> Num(0)
      [] IsFin(b) ->
            IF Sign(a) * (IF b.n < 0 THEN -1 ELSE 1) > 0 THEN PInf ELSE NInf
      [] OTHER                       -> NaN

\* a < b (false when either is NaN)
JLt(a, b) ==
    CASE IsNaN(a) \/ IsNaN(b)        -> FALSE
      [] IsFin(a) /\ IsFin(b)        -> a.n * b.d < b.n * a.d
      [] a.t = "ninf"                -> b.t # "ninf"
      [] b.t = "pinf"                -> a.t # "pinf"
      [] OTHER                       -> FALSE

JGt(a, b) == JLt(b, a)

JLe(a, b) == ~IsNaN(a) /\ ~IsNaN(b) /\ ~JLt(b, a)

JGe(a, b) == JLe(b, a)

\* Math.min(a, b)
MathMin(a, b) ==
    IF IsNaN(a) \/ IsNaN(b) THEN NaN ELSE IF JLt(b, a) THEN b ELSE a

\* Math.max(a, b)
MathMax(a, b) ==
    IF IsNaN(a) \/ IsNaN(b) THEN NaN ELSE IF JLt(a, b) THEN b ELSE a

\* Math.floor(a)
MathFloor(a) == IF IsFin(a) THEN Num(a.n \div a.d) ELSE a

\* Math.ceil(a)
MathCeil(a) == IF IsFin(a) THEN Num(-((-a.n) \div a.d)) ELSE a

\* a % b (the remainder takes the sign of the dividend)
JMod(a, b) ==
    CASE IsNaN(a) \/ IsNaN(b) \/ ~IsFin(a) -> NaN
      [] ~IsFin(b)                         -> a
      [] b.n = 0                           -> NaN
      [] OTHER ->
            LET q  == JDiv(a, b)
                tr == IF q.n >= 0 THEN MathFloor(q) ELSE MathCeil(q)
            IN  JSub(a, JMul(b, tr))

\* a JavaScript number that is a real number within [lo, hi]
InRange(a, lo, hi) == IsFin(a) /\ JLe(lo, a) /\ JLe(a, hi)

-----------------------------------------------------------------------------
(* scaleReplicas *)

\* scaleReplicas with the CPU ratio inverted: cpuThreshold / avgCpu
scaleReplicasInvertedRatio(currentReplicas, avgCpu, avgMemory, totalUsers, config) ==
    LET cpuThreshold    == config.cpuThreshold
        memoryThreshold == config.memoryThreshold
        cpuDesiredReplicas ==
            MathCeil(JMul(currentReplicas, JDiv(cpuThreshold, avgCpu)))
        memoryDesiredReplicas ==
            MathCeil(JMul(currentReplicas, JDiv(avgMemory, memoryThreshold)))
        desiredReplicas == MathMax(cpuDesiredReplicas, memoryDesiredReplicas)
    IN  MathMin(MathMax(desiredReplicas, config.minReplicas), config.maxReplicas)

scaleReplicas(currentReplicas, avgCpu, avgMemory, totalUsers, config) ==
    LET cpuThreshold    == config.cpuThreshold
        memoryThreshold == config.memoryThreshold
        cpuDesiredReplicas ==
            MathCeil(JMul(currentReplicas, JDiv(avgCpu, cpuThreshold)))
        memoryDesiredReplicas ==
            MathCeil(JMul(currentReplicas, JDiv(avgMemory, memoryThreshold)))
        desiredReplicas == MathMax(cpuDesiredReplicas, memoryDesiredReplicas)
    IN  MathMin(MathMax(desiredReplicas, config.minReplicas), config.maxReplicas)

-----------------------------------------------------------------------------
(* parseMemory, parseCPU *)

\* strings are modelled as sequences of one-character strings
Digits == {"0", "1", "2", "3", "4", "5", "6", "7", "8", "9"}

DigitVal(c) ==
    CASE c = "0" -> 0 [] c = "1" -> 1 [] c = "2" -> 2 [] c = "3" -> 3
      [] c = "4" -> 4 [] c = "5" -> 5 [] c = "6" -> 6 [] c = "7" -> 7
      [] c = "8" -> 8 [] c = "9" -> 9

\* the length of the longest prefix of str made of decimal digits
LeadingDigits(str) ==
    CHOOSE k \in 0..Len(str) :
        /\ \A i \in 1..k : str[i] \in Digits
        /\ k < Len(str) => str[k + 1] \notin Digits

RECURSIVE DecimalValue(_)
DecimalValue(ds) ==
    IF ds = <<>> THEN 0
    ELSE 10 * DecimalValue(SubSeq(ds, 1, Len(ds) - 1)) + DigitVal(ds[Len(ds)])

\* parseInt(str): an optional sign and the leading decimal digits; NaN when
\* there is no digit (leading blanks and the 0x prefix are not modelled)
parseInt(str) ==
    LET signed == Len(str) > 0 /\ str[1] \in {"-", "+"}
        body   == IF signed THEN Tail(str) ELSE str
        k      == LeadingDigits(body)
        v      == DecimalValue(SubSeq(body, 1, k))
    IN  IF k = 0 THEN NaN
        ELSE IF signed /\ str[1] = "-" THEN Num(-v) ELSE Num(v)

\* str.endsWith(suffix)
EndsWith(str, suffix) ==
    /\ Len(str) >= Len(suffix)
    /\ SubSeq(str, Len(str) - Len(suffix) + 1, Len(str)) = suffix

parseMemory(memoryStr) ==
    LET value == parseInt(memoryStr)
    IN  IF EndsWith(memoryStr, <<"G", "i">>) THEN JMul(value, Num(1024))
        ELSE IF EndsWith(memoryStr, <<"M", "i">>) THEN value
        ELSE value

parseCPU(cpuStr) ==
    LET value == parseInt(cpuStr)
    IN  IF EndsWith(cpuStr, <<"m">>) THEN value ELSE JMul(value, Num(1000))

-----------------------------------------------------------------------------
(* generateUserLoad, calculateResourcesForUsers, simulatePodUsage,           *)
(* calculateAverageUsage                                                     *)

Load(cpu, memory) == [cpu |-> cpu, memory |-> memory]

\* the fallback table of generateUserLoad
DefaultUserPatterns ==
    [type \in {"light", "medium", "heavy"} |->
        CASE type = "light"  -> Load(Fin(1, 10), Fin(7, 10))
          [] type = "medium" -> Load(Fin(5, 10), Num(1))
          [] type = "heavy"  -> Load(Fin(8, 10), Fin(15, 10))]

\* config.userPatterns is [t |-> "undef"] or [t |-> "table", tab |-> table]
generateUserLoad(userType, runtimeConfig) ==
    LET patterns == IF runtimeConfig.userPatterns.t = "undef"
                    THEN DefaultUserPatterns
                    ELSE runtimeConfig.userPatterns.tab
    IN  IF userType \in DOMAIN patterns THEN patterns[userType]
        ELSE patterns["medium"]

\* users.reduce(...) of calculateResourcesForUsers, from { cpu: 0, memory: 0 }
RECURSIVE ReduceResources(_, _)
ReduceResources(us, config) ==
    IF us = <<>> THEN Load(Num(0), Num(0))
    ELSE LET total       == ReduceResources(SubSeq(us, 1, Len(us) - 1), config)
             userLoad    == generateUserLoad(us[Len(us)].type, config)
             cpuUsage    == JMul(JDiv(config.userResources.cpu, Num(100)), Num(1000))
             memoryUsage == JMul(JDiv(config.userResources.memory, Num(100)), Num(1024))
         IN  Load(JAdd(total.cpu, JMul(cpuUsage, userLoad.cpu)),
                  JAdd(total.memory, JMul(memoryUsage, userLoad.memory)))

\* an argument or field that is missing: undefined or null
Missing(v) == v.t \in {"undef", "null"}

calculateResourcesForUsers(us, config) ==
    IF Missing(config) \/ Missing(config.userResources)
    THEN Load(Num(0), Num(0))
    ELSE ReduceResources(us, config)

\* users.filter(u => u.podName === name)
RECURSIVE FilterByPod(_, _)
FilterByPod(us, name) ==
    IF us = <<>> THEN <<>>
    ELSE LET rest == FilterByPod(SubSeq(us, 1, Len(us) - 1), name)
         IN  IF us[Len(us)].podName = name THEN Append(rest, us[Len(us)]) ELSE rest

\* user.podName after `delete user.podName`; the name of a pod without one
NoPod == 0

\* the pod name 'unknown' of a record computed without a pod
UnknownPod == -1

\* Math.min(100, Math.max(0, percentage))
ClampPercent(percentage) == MathMin(Num(100), MathMax(Num(0), percentage))

\* pod?.name || 'unknown'
NameOrUnknown(pod) ==
    IF Missing(pod) \/ pod.name = NoPod THEN UnknownPod ELSE pod.name

\* simulatePodUsage without the test of config.userResources
simulatePodUsageNoResourcesTest(pod, us, config) ==
    IF Missing(pod) \/ Missing(us) \/ Missing(config)
    THEN [t |-> "zeroed", cpu |-> Num(0), memory |-> Num(0),
          podName |-> NameOrUnknown(pod), activeUsers |-> 0]
    ELSE LET podUsers      == FilterByPod(us.list, pod.name)
             userResources == calculateResourcesForUsers(podUsers, config)
             podLimits     == Load(parseCPU(pod.limitsCpu), parseMemory(pod.limitsMemory))
             cpuPercentage    == JMul(JDiv(userResources.cpu, podLimits.cpu), Num(100))
             memoryPercentage == JMul(JDiv(userResources.memory, podLimits.memory), Num(100))
         IN  [t |-> "usage",
              cpu |-> ClampPercent(cpuPercentage),
              memory |-> ClampPercent(memoryPercentage),
              podName |-> pod.name,
              activeUsers |-> Len(podUsers),
              rawMetrics |-> [cpu |-> userResources.cpu,
                              memory |-> userResources.memory,
                              cpuLimit |-> podLimits.cpu,
                              memoryLimit |-> podLimits.memory]]

\* the record's timestamp is left out; us is undefined, null or
\* [t |-> "array", list |-> the users]
simulatePodUsage(pod, us, config) ==
    IF Missing(pod) \/ Missing(us) \/ Missing(config) \/ Missing(config.userResources)
    THEN [t |-> "zeroed", cpu |-> Num(0), memory |-> Num(0),
          podName |-> NameOrUnknown(pod), activeUsers |-> 0]
    ELSE LET podUsers      == FilterByPod(us.list, pod.name)
             userResources == calculateResourcesForUsers(podUsers, config)
             podLimits     == Load(parseCPU(pod.limitsCpu), parseMemory(pod.limitsMemory))
             cpuPercentage    == JMul(JDiv(userResources.cpu, podLimits.cpu), Num(100))
             memoryPercentage == JMul(JDiv(userResources.memory, podLimits.memory), Num(100))
         IN  [t |-> "usage",
              cpu |-> ClampPercent(cpuPercentage),
              memory |-> ClampPercent(memoryPercentage),
              podName |-> pod.name,
              activeUsers |-> Len(podUsers),
              rawMetrics |-> [cpu |-> userResources.cpu,
                              memory |-> userResources.memory,
                              cpuLimit |-> podLimits.cpu,
                              memoryLimit |-> podLimits.memory]]

-----------------------------------------------------------------------------
(* generateLoad *)

\* a destructured field that is absent (undefined) from the profile
Undef == [t |-> "undef", n |-> 0, d |-> 1]

\* a destructuring default: `field = dflt`
Default(v, dflt) == IF v.t = "undef" THEN dflt ELSE v

\* 24 * 3600
SecondsPerDay == 86400

\* BoundLoad without the cap at maxUsers for the patterns other than 'linear'
BoundLoadNoCap(pattern, load, initialUsers, maxUsers) ==
    IF pattern = "linear"
    THEN MathMax(initialUsers, MathMin(load, maxUsers))
    ELSE MathMax(Num(0), load)

\* BoundLoad without the floor at initialUsers for 'linear'
BoundLoadNoFloor(pattern, load, initialUsers, maxUsers) ==
    IF pattern = "linear"
    THEN MathMin(load, maxUsers)
    ELSE MathMax(Num(0), MathMin(load, maxUsers))

\* the post-processing of the load: the floor is initialUsers for 'linear'
\* and 0 for the other patterns, the cap is maxUsers
BoundLoad(pattern, load, initialUsers, maxUsers) ==
    IF pattern = "linear"
    THEN MathMax(initialUsers, MathMin(load, maxUsers))
    ELSE MathMax(Num(0), MathMin(load, maxUsers))

\* e.sin stands for the value of Math.sin at the pattern's argument (any value
\* of [-1, 1]); e.r1 and e.r2 are the two Math.random() draws of 'random'.
generateLoad(pattern, time, profile, e) ==
    LET baseLoad         == profile.baseLoad
        amplitude        == profile.amplitude
        period           == profile.period
        spikeProbability == Default(profile.spikeProbability, Fin(1, 10))
        spikeMultiplier  == Default(profile.spikeMultiplier, Num(2))
        maxUsers         == profile.maxUsers
        userGrowthRate   == profile.userGrowthRate
        initialUsers     == Default(profile.initialUsers, baseLoad)
        timeInMinutes    == JDiv(JMod(time, Num(SecondsPerDay)), Num(60))
        linear0          == JAdd(initialUsers, JMul(userGrowthRate, timeInMinutes))
        hasSpike         == JLt(e.r1, spikeProbability)
        baseValue        == JAdd(baseLoad, JMul(JSub(e.r2, Fin(1, 2)), amplitude))
        hourOfDay        == JDiv(JMod(time, Num(SecondsPerDay)), Num(3600))
        workdayMultiplier ==
            IF JGe(hourOfDay, Num(8)) /\ JLe(hourOfDay, Num(18))
            THEN Num(1) ELSE Fin(3, 10)
        load ==
            CASE pattern = "linear" ->
                    IF JGe(linear0, maxUsers) THEN maxUsers ELSE linear0
              [] pattern = "sine" ->
                    JAdd(baseLoad, JMul(amplitude, e.sin))
              [] pattern = "spike" ->
                    JAdd(baseLoad,
                         IF JLt(JMod(time, period), JDiv(period, Num(10)))
                         THEN amplitude ELSE Num(0))
              [] pattern = "sawtooth" ->
                    JAdd(baseLoad, JMul(amplitude, JDiv(JMod(time, period), period)))
              [] pattern = "square" ->
                    JAdd(baseLoad,
                         IF JMod(MathFloor(JDiv(time, JDiv(period, Num(2)))), Num(2))
                                = Num(0)
                         THEN amplitude ELSE Num(0))
              [] pattern = "random" ->
                    IF hasSpike THEN JMul(baseValue, spikeMultiplier) ELSE baseValue
              [] pattern = "daily" ->
                    JAdd(baseLoad, JMul(JMul(amplitude, e.sin), workdayMultiplier))
              [] OTHER -> baseLoad
    IN  MathFloor(BoundLoad(pattern, load, initialUsers, maxUsers))

-----------------------------------------------------------------------------
(* distributeUsers *)

UserSession(id, type) == [id |-> id, type |-> type, podName |-> NoPod]

\* (a.metrics?.cpu || 0): a missing metric counts as 0
PodLoad(pod) == IF pod.cpu.t = "undef" \/ IsNaN(pod.cpu) THEN Num(0) ELSE pod.cpu

\* the pods taken in their input order, the sort left out
SortedPodsInputOrder(ps) == ps

\* [...pods].sort(by PodLoad): insertion of each pod after the pods that are
\* not heavier, which is the stable ascending order
RECURSIVE SortedPods(_)
SortedPods(ps) ==
    IF ps = <<>> THEN <<>>
    ELSE LET rest == SortedPods(SubSeq(ps, 1, Len(ps) - 1))
             p    == ps[Len(ps)]
             k    == Cardinality({i \in 1..Len(rest) :
                                    ~JLt(PodLoad(p), PodLoad(rest[i]))})
         IN  SubSeq(rest, 1, k) \o <<p>> \o SubSeq(rest, k + 1, Len(rest))

\* Math.floor(users.length / pods.length) + 1
MaxUsersPerPod(us, ps) == (Len(us) \div Len(ps)) + 1

\* AssignUser with the range check off by one: the last pod is never used
AssignUserSkipsLast(user, index, sortedPods, maxUsersPerPod) ==
    LET podIndex == index \div maxUsersPerPod
    IN  IF podIndex < Len(sortedPods) - 1
        THEN [user EXCEPT !.podName = sortedPods[podIndex + 1].name]
        ELSE user

\* the forEach callback of the distribution: index is 0-based
AssignUser(user, index, sortedPods, maxUsersPerPod) ==
    LET podIndex == index \div maxUsersPerPod
    IN  IF podIndex < Len(sortedPods)
        THEN [user EXCEPT !.podName = sortedPods[podIndex + 1].name]
        ELSE user

\* distributeUsers that returns at once, assignments untouched, without pods
distributeUsersKeepsStale(us, ps) ==
    LET cleared == [i \in 1..Len(us) |-> [us[i] EXCEPT !.podName = NoPod]]
    IN  IF Len(ps) = 0 THEN us
        ELSE LET sortedPods     == SortedPods(ps)
                 maxUsersPerPod == MaxUsersPerPod(us, ps)
             IN  [i \in 1..Len(us) |->
                    AssignUser(cleared[i], i - 1, sortedPods, maxUsersPerPod)]

distributeUsers(us, ps) ==
    LET cleared == [i \in 1..Len(us) |-> [us[i] EXCEPT !.podName = NoPod]]
    IN  IF Len(ps) = 0 THEN cleared
        ELSE LET sortedPods     == SortedPods(ps)
                 maxUsersPerPod == MaxUsersPerPod(us, ps)
             IN  [i \in 1..Len(us) |->
                    AssignUser(cleared[i], i - 1, sortedPods, maxUsersPerPod)]

-----------------------------------------------------------------------------
(* Inputs of the simulation context *)

\* the pod names "pod-1" .. "pod-MaxPods" are modelled by their numbers
MaxPods == 2

\* the number of distinct clock readings, 30 seconds apart
MaxClock == 4

ClockValues == {30 * k : k \in 1..MaxClock}

UserTypes == {"light", "medium", "heavy"}

Patterns == {"linear", "sine", "spike", "sawtooth", "square", "random", "daily",
             "constant"}

PodNames == 1..MaxPods

\* metrics.cpu of a pod: missing, or a previous-cycle percentage
PodMetrics == {Undef, Num(50)}

Pod(name, cpu) == [name |-> name, cpu |-> cpu]

\* the pod lists of at most MaxPods pods with distinct names
PodLists ==
    UNION {{ps \in [1..k -> {Pod(nm, m) : nm \in PodNames, m \in PodMetrics}] :
                \A i, j \in 1..k : i # j => ps[i].name # ps[j].name}
           : k \in 0..MaxPods}

LoadProfile(pattern, baseLoad, amplitude, period, maxUsers, userGrowthRate, initialUsers) ==
    [pattern          |-> pattern,
     baseLoad         |-> baseLoad,
     amplitude        |-> amplitude,
     period           |-> period,
     spikeProbability |-> Undef,
     spikeMultiplier  |-> Undef,
     maxUsers         |-> maxUsers,
     userGrowthRate   |-> userGrowthRate,
     initialUsers     |-> initialUsers]

\* a profile with amplitude 2 and period 60
Profile(pattern, baseLoad, maxUsers, userGrowthRate, initialUsers) ==
    LoadProfile(pattern, baseLoad, Num(2), Num(60), maxUsers, userGrowthRate,
                initialUsers)

\* metrics-free pod lists, as a caller builds them for a new replica count
FreshPodLists == {ps \in PodLists : \A i \in 1..Len(ps) : ps[i].cpu = Undef}

\* the load profiles a caller passes to a tick
TickProfiles ==
    {Profile("linear", Num(1), Num(2), Num(2), Undef),
     Profile("linear", Num(2), Num(3), Num(2), Undef),
     Profile("linear", Num(1), Num(3), Num(-2), Undef),
     Profile("linear", Num(2), Num(3), Num(-2), Undef),
     Profile("linear", Num(1), Num(3), Num(2), Num(2))}
    \cup
    {Profile(p, Num(1), Num(3), Num(2), Undef) : p \in Patterns \ {"linear"}}

\* the load profiles of the runs that exercise the pod assignment
PodTickProfiles ==
    {Profile("constant", Num(1), Num(3), Num(2), Undef),
     Profile("constant", Num(3), Num(3), Num(2), Undef)}

Env(sn, a, b) == [sin |-> sn, r1 |-> a, r2 |-> b]

\* values of Math.sin and of the two Math.random() draws seen by a tick
TickEnvs ==
    {Env(Num(-1), Num(0), Fin(9, 10)),
     Env(Num(0), Fin(1, 2), Fin(9, 10)),
     Env(Num(1), Fin(1, 2), Num(0))}

\* the patterns that do not call Math.sin or Math.random see one environment
EnvsFor(pattern) ==
    IF pattern \in {"sine", "daily", "random"}
    THEN TickEnvs
    ELSE {Env(Num(0), Num(0), Num(0))}

-----------------------------------------------------------------------------
(* The simulation context: simulateUserActivity, resetSimulation and the     *)
(* caller's use of distributeUsers.  A tick is one synchronous call; it is   *)
(* modelled by its entry (TickBegin) and one step per loop iteration         *)
(* (GrowStep, ShrinkStep), so that a loop that never ends shows as a tick    *)
(* that never gets back to pc = "idle".  No other operation runs meanwhile.  *)

\* simulationStartTime = null
Null == [t |-> "null", n |-> 0, d |-> 1]

\* !v
Falsy(v) == v.t = "null" \/ v.t = "undef" \/ IsNaN(v) \/ (IsFin(v) /\ v.n = 0)

NoProfile == LoadProfile("none", Undef, Undef, Undef, Undef, Undef, Undef)

NoCall == [fn |-> "none"]

NoRet == [t |-> "none"]

CtxInit ==
    /\ users = <<>>
    /\ usersDefined = FALSE
    /\ simulationStartTime = Null
    /\ now = 0
    /\ cfg = NoProfile
    /\ target = Undef
    /\ pc = "idle"
    /\ lastOp = "init"
    /\ fault = FALSE
    /\ pods = <<>>
    /\ issued = 0

\* targetUsers of the linear branch
LinearTarget(profile, currentTime, startTime) ==
    LET elapsedMinutes == JDiv(JSub(currentTime, startTime), Num(60))
    IN  MathMin(profile.maxUsers,
                MathFloor(JAdd(profile.baseLoad,
                               JMul(profile.userGrowthRate, elapsedMinutes))))

\* targetUsers of the other branch
PatternTarget(profile, currentTime, e) ==
    MathFloor(generateLoad(profile.pattern, currentTime, profile, e))

\* StartTimeAfter without the reset of the origin by the other patterns
StartTimeAfterKeepsOrigin(profile, currentTime, startTime) ==
    IF Falsy(startTime) THEN currentTime ELSE startTime

\* simulationStartTime after the prologue and the branch's own assignment
StartTimeAfter(profile, currentTime, startTime) ==
    IF profile.pattern = "linear"
    THEN IF Falsy(startTime) THEN currentTime ELSE startTime
    ELSE Null

\* simulateUserActivity up to its first read of `users`: the clock is read,
\* the time origin is updated and targetUsers is computed; reading `users`
\* while the global does not exist raises a ReferenceError.
TickBegin(profile, e, t) ==
    /\ pc = "idle"
    /\ t >= now
    /\ now' = t
    /\ cfg' = profile
    /\ lastOp' = "tick"
    /\ simulationStartTime' = StartTimeAfter(profile, Num(t), simulationStartTime)
    /\ target' = IF profile.pattern = "linear"
                 THEN LinearTarget(profile, Num(t), simulationStartTime')
                 ELSE PatternTarget(profile, Num(t), e)
    /\ IF usersDefined
       THEN pc' = "grow" /\ fault' = FALSE
       ELSE pc' = "idle" /\ fault' = TRUE
    /\ UNCHANGED << users, usersDefined, pods, issued, call, ret >>

\* while (users.length < targetUsers) users.push(new UserSession(...))
GrowStep ==
    /\ pc = "grow"
    /\ IF JLt(Num(Len(users)), target)
       THEN /\ \E randomType \in UserTypes :
                 users' = Append(users, UserSession(Len(users) + 1, randomType))
            /\ issued' = IF Len(users) + 1 > issued THEN Len(users) + 1 ELSE issued
            /\ pc' = pc
       ELSE /\ pc' = "shrink"
            /\ users' = users
            /\ issued' = issued
    /\ UNCHANGED << usersDefined, simulationStartTime, now, cfg, target, lastOp,
                    fault, pods, call, ret >>

\* users.pop(): an empty array stays empty
Pop(us) == IF Len(us) = 0 THEN us ELSE SubSeq(us, 1, Len(us) - 1)

\* ShrinkStep whose loop also runs when users.length equals targetUsers
ShrinkStepOffByOne ==
    /\ pc = "shrink"
    /\ IF JGe(Num(Len(users)), target)
       THEN users' = Pop(users) /\ pc' = pc
       ELSE users' = users /\ pc' = "idle"
    /\ UNCHANGED << usersDefined, simulationStartTime, now, cfg, target, lastOp,
                    fault, pods, issued, call, ret >>

\* while (users.length > targetUsers) users.pop(); return users
ShrinkStep ==
    /\ pc = "shrink"
    /\ IF JGt(Num(Len(users)), target)
       THEN users' = Pop(users) /\ pc' = pc
       ELSE users' = users /\ pc' = "idle"
    /\ UNCHANGED << usersDefined, simulationStartTime, now, cfg, target, lastOp,
                    fault, pods, issued, call, ret >>

\* resetSimulation that empties the population and keeps the time origin
resetSimulationKeepsOrigin ==
    /\ pc = "idle"
    /\ users' = <<>>
    /\ usersDefined' = TRUE
    /\ issued' = 0
    /\ lastOp' = "reset"
    /\ fault' = FALSE
    /\ UNCHANGED << simulationStartTime, now, cfg, target, pc, pods, call, ret >>

resetSimulation ==
    /\ pc = "idle"
    /\ simulationStartTime' = Null
    /\ users' = <<>>
    /\ usersDefined' = TRUE
    /\ issued' = 0
    /\ lastOp' = "reset"
    /\ fault' = FALSE
    /\ UNCHANGED << now, cfg, target, pc, pods, call, ret >>

\* the caller assigns the population returned by the tick to the current pods
DistributeUsers ==
    /\ pc = "idle"
    /\ usersDefined
    /\ users' = distributeUsers(users, pods)
    /\ lastOp' = "distribute"
    /\ fault' = FALSE
    /\ UNCHANGED << usersDefined, simulationStartTime, now, cfg, target, pc,
                    pods, issued, call, ret >>

\* the caller replaces its pod list (e.g. applies a scaleReplicas result)
SetPods(ps) ==
    /\ pc = "idle"
    /\ ps # pods
    /\ pods' = ps
    /\ lastOp' = "setPods"
    /\ fault' = FALSE
    /\ UNCHANGED << users, usersDefined, simulationStartTime, now, cfg, target,
                    pc, issued, call, ret >>

Init == CtxInit /\ call = NoCall /\ ret = NoRet

\* one tick entered with any profile of `profiles`
Tick(profiles) ==
    \E profile \in profiles, t \in ClockValues :
        \E e \in EnvsFor(profile.pattern) : TickBegin(profile, e, t)

\* the simulation run: ticks and resets
Next ==
    \/ Tick(TickProfiles)
    \/ GrowStep
    \/ ShrinkStep
    \/ resetSimulation

Spec == Init /\ [][Next]_vars

\* a tick is one synchronous computation: once entered, its loops keep running
FairSpec == Spec /\ WF_vars(GrowStep) /\ WF_vars(ShrinkStep)

\* the simulation run with its caller's pod list and user assignment
PodNext ==
    \/ Tick(PodTickProfiles)
    \/ GrowStep
    \/ ShrinkStep
    \/ resetSimulation
    \/ DistributeUsers
    \/ \E ps \in FreshPodLists : SetPods(ps)

PodSpec == Init /\ [][PodNext]_vars

-----------------------------------------------------------------------------
(* The pure functions, each applied once to arguments drawn from bounded sets *)

\* the context stays as constructed while a pure function is exercised
PureInit(calls) == CtxInit /\ call \in calls /\ ret = NoRet

Returned(fn) == call.fn = fn /\ ret.t # "none"

(* scaleReplicas *)

ScaleConfig(cpuThreshold, memoryThreshold, minReplicas, maxReplicas) ==
    [cpuThreshold |-> cpuThreshold, memoryThreshold |-> memoryThreshold,
     minReplicas |-> minReplicas, maxReplicas |-> maxReplicas]

\* scaling configs with minReplicas <= maxReplicas; a threshold may be 0
ScaleConfigs ==
    {ScaleConfig(Num(c), Num(m), Num(lo), Num(hi)) :
        c \in {0, 50, 80}, m \in {80}, lo \in {1, 2}, hi \in {3, 10}}

\* utilization averages as calculateAverageUsage yields them, NaN included
Averages == {Num(0), Num(40), Num(50), Num(80), Num(100), NaN}

ScaleCalls ==
    {[fn |-> "scaleReplicas", currentReplicas |-> Num(r), avgCpu |-> a,
      avgMemory |-> b, totalUsers |-> Num(0), config |-> c] :
        r \in {0, 1, 2, 4}, a \in Averages, b \in {Num(0), Num(80), Num(100)},
        c \in ScaleConfigs}

ApplyScale ==
    /\ call.fn = "scaleReplicas"
    /\ ret = NoRet
    /\ ret' = scaleReplicas(call.currentReplicas, call.avgCpu, call.avgMemory,
                            call.totalUsers, call.config)
    /\ UNCHANGED << ctxVars, call >>

ScaleSpec == PureInit(ScaleCalls) /\ [][ApplyScale]_vars

(* generateLoad *)

\* times in seconds: within a period, in working hours, and past one day
LoadTimes == {0, 30, 60, 90, 32400, 86460}

\* profiles of numbers, the degenerate ones included: a period of 0, a
\* negative maxUsers, initialUsers above maxUsers
LoadProfiles ==
    {LoadProfile(p, Num(b), Num(a), Num(per), Num(m), Num(g), i) :
        p \in Patterns, b \in {0, 2}, a \in {2, 5}, per \in {0, 60},
        m \in {-1, 0, 3}, g \in {-2, 2}, i \in {Undef, Num(1), Num(4)}}

\* values of Math.sin and of the two Math.random() draws
LoadEnvs ==
    {Env(Num(-1), Num(0), Num(0)),
     Env(Fin(-1, 2), Fin(1, 2), Num(0)),
     Env(Num(0), Num(0), Fin(1, 2)),
     Env(Fin(1, 2), Fin(1, 2), Fin(9, 10)),
     Env(Num(1), Num(0), Fin(9, 10))}

LoadEnvsFor(pattern) ==
    IF pattern \in {"sine", "daily", "random"}
    THEN LoadEnvs
    ELSE {Env(Num(0), Num(0), Num(0))}

LoadCalls ==
    UNION {{[fn |-> "generateLoad", time |-> Num(t), profile |-> pr, e |-> e] :
                t \in LoadTimes, e \in LoadEnvsFor(pr.pattern)}
           : pr \in LoadProfiles}

ApplyLoad ==
    /\ call.fn = "generateLoad"
    /\ ret = NoRet
    /\ ret' = generateLoad(call.profile.pattern, call.time, call.profile, call.e)
    /\ UNCHANGED << ctxVars, call >>

LoadSpec == PureInit(LoadCalls) /\ [][ApplyLoad]_vars

(* simulatePodUsage *)

\* the longest population handed to simulatePodUsage
MaxUsageUsers == 2

\* "500m", "1", "0m", "abc"
CpuLimitStrings ==
    {<<"5", "0", "0", "m">>, <<"1">>, <<"0", "m">>, <<"a", "b", "c">>}

\* "512Mi", "1Gi", "0", "x"
MemoryLimitStrings ==
    {<<"5", "1", "2", "M", "i">>, <<"1", "G", "i">>, <<"0">>, <<"x">>}

PodWithLimits(name, limitsCpu, limitsMemory) ==
    [t |-> "pod", name |-> name, cpu |-> Undef,
     limitsCpu |-> limitsCpu, limitsMemory |-> limitsMemory]

UsageConfig(cpu, memory) ==
    [t |-> "config", userPatterns |-> [t |-> "undef"],
     userResources |-> [t |-> "resources", cpu |-> Num(cpu), memory |-> Num(memory)]]

\* populations of sessions assigned to pod 1 or to pod 2
UsagePopulations ==
    UNION {[1..k -> {[id |-> 0, type |-> ty, podName |-> pn] :
                        ty \in UserTypes, pn \in {1, 2}}]
           : k \in 0..MaxUsageUsers}

\* a config that has no userResources
ConfigWithoutResources ==
    [t |-> "config", userPatterns |-> [t |-> "undef"], userResources |-> Undef]

\* calls in which the pod, the users, the config or config.userResources may
\* be undefined or null, and the pod may have no name
PartialUsageCalls ==
    {[fn |-> "simulatePodUsage", pod |-> pod, users |-> us, config |-> c] :
        pod \in {PodWithLimits(n, <<"5", "0", "0", "m">>, <<"1", "G", "i">>) :
                    n \in {NoPod, 1}} \cup {Undef, Null},
        us \in {[t |-> "array", list |-> l] :
                    l \in {<<>>, <<[id |-> 0, type |-> "medium", podName |-> 1]>>}}
               \cup {Undef, Null},
        c \in {UsageConfig(50, 50), ConfigWithoutResources, Undef, Null}}

UsageCalls ==
    {[fn |-> "simulatePodUsage", pod |-> PodWithLimits(1, lc, lm),
      users |-> [t |-> "array", list |-> us], config |-> UsageConfig(c, c)] :
        lc \in CpuLimitStrings, lm \in MemoryLimitStrings,
        us \in UsagePopulations, c \in {50, 100}}
    \cup PartialUsageCalls

ApplyUsage ==
    /\ call.fn = "simulatePodUsage"
    /\ ret = NoRet
    /\ ret' = simulatePodUsage(call.pod, call.users, call.config)
    /\ UNCHANGED << ctxVars, call >>

UsageSpec == PureInit(UsageCalls) /\ [][ApplyUsage]_vars

(* distributeUsers *)

\* the longest population handed to distributeUsers
MaxN == 4

\* populations whose sessions are unassigned or still name a pod that is gone
DistributePopulations ==
    UNION {{us \in [1..k -> {[id |-> i, type |-> "medium", podName |-> pn] :
                                i \in 1..k, pn \in {NoPod, MaxPods + 1}}] :
                \A i \in 1..k : us[i].id = i}
           : k \in 0..MaxN}

DistributeCalls ==
    {[fn |-> "distributeUsers", users |-> us, pods |-> ps] :
        us \in DistributePopulations, ps \in PodLists}

ApplyDistribute ==
    /\ call.fn = "distributeUsers"
    /\ ret = NoRet
    /\ ret' = [t |-> "array", list |-> distributeUsers(call.users, call.pods)]
    /\ UNCHANGED << ctxVars, call >>

DistributeSpec == PureInit(DistributeCalls) /\ [][ApplyDistribute]_vars

-----------------------------------------------------------------------------
(* Claims about the pure functions *)

\* C1: for every currentReplicas, avgCpu, avgMemory, totalUsers and scaling
\* config, the value returned by scaleReplicas lies in
\* [config.minReplicas, config.maxReplicas].
C1_ScaleWithinBounds ==
    Returned("scaleReplicas") =>
        InRange(ret, call.config.minReplicas, call.config.maxReplicas)

C7_UsagePercentWithinBounds ==
    (Returned("simulatePodUsage") /\ ret.t = "usage") =>
        LET assigned == FilterByPod(call.users.list, call.pod.name)
            usage    == calculateResourcesForUsers(assigned, call.config)
        IN  /\ InRange(ret.cpu, Num(0), Num(100))
            /\ InRange(ret.memory, Num(0), Num(100))
            /\ ret.rawMetrics.cpu = usage.cpu
            /\ ret.rawMetrics.memory = usage.memory
            /\ ret.rawMetrics.cpuLimit = parseCPU(call.pod.limitsCpu)
            /\ ret.rawMetrics.memoryLimit = parseMemory(call.pod.limitsMemory)

PodNameSet(ps) == {ps[i].name : i \in 1..Len(ps)}

\* C10: for distributeUsers with N users and P > 0 pods, with
\* capacityPerPod = floor(N/P) + 1, every user at index < P * capacityPerPod
\* ends with a podName that is the name of one of the supplied pods, and no
\* user ends with a podName that is not the name of a supplied pod.
C10_AssignmentComplete ==
    (Returned("distributeUsers") /\ Len(call.pods) > 0) =>
        LET N              == Len(call.users)
            P              == Len(call.pods)
            capacityPerPod == (N \div P) + 1
        IN  /\ Len(ret.list) = N
            /\ \A i \in 1..N :
                  /\ (i - 1 < P * capacityPerPod) =>
                        ret.list[i].podName \in PodNameSet(call.pods)
                  /\ ret.list[i].podName # NoPod =>
                        ret.list[i].podName \in PodNameSet(call.pods)

\* four users that named a pod that is gone were spread over two pods
C10_Witness ==
    /\ Returned("distributeUsers")
    /\ Len(call.pods) = 2
    /\ Len(call.users) = 4
    /\ \A i \in 1..4 : call.users[i].podName = MaxPods + 1
    /\ {ret.list[i].podName : i \in 1..4} = PodNameSet(call.pods)

-----------------------------------------------------------------------------
(* Claims about the simulation context *)

\* every assigned session names a pod of the caller's current pod list
PodNamesValid ==
    \A i \in 1..Len(users) :
        users[i].podName # NoPod => users[i].podName \in PodNameSet(pods)

\* C2: in every state reachable by tick, distributeUsers, reset and caller
\* changes to the pod set, every user session whose podName is set names a
\* pod that is present in the current pod set.
C2_PodNamesAlwaysValid == PodNamesValid

\* C2 (amended): right after distributeUsers over the current pod list every
\* session whose podName is set names a pod of that list, and every step that
\* keeps all the pods of the list (a tick, a reset, a pod list that only grows)
\* preserves it; after the caller drops a pod, its sessions keep the stale
\* name until the next distributeUsers.
C2_PodNamesValidUntilPodRemoved ==
    /\ [](lastOp = "distribute" => PodNamesValid)
    /\ [][(PodNamesValid /\ PodNameSet(pods) \subseteq PodNameSet(pods'))
             => PodNamesValid']_vars

\* three sessions were spread over both pods of a two-pod list
C2_Witness ==
    /\ lastOp = "distribute"
    /\ Len(pods) = 2
    /\ Len(users) = 3
    /\ {users[i].podName : i \in 1..3} = PodNameSet(pods)

\* a tick has returned normally
TickReturned == lastOp = "tick" /\ pc = "idle" /\ ~fault

\* C3: a tick called in any reachable state, the initial state in which reset
\* has never been called included, completes and returns the population; it
\* never raises a fault.
C3_TickNeverFaults == lastOp = "tick" => ~fault

\* C4: every tick terminates: the grow loop and the shrink loop both finish
\* and leave the population size equal to the computed target count.  Inside
\* a tick an iteration that changes the state is always possible (the loops
\* run on a finite population, so they then finish), and a tick that has
\* returned left Len(users) = target.
C4_TickTerminates ==
    /\ pc # "idle" => ENABLED <<GrowStep \/ ShrinkStep>>_vars
    /\ TickReturned => Num(Len(users)) = target

\* C4 as a liveness property of FairSpec: a tick that was entered returns
C4_TickEventuallyReturns ==
    (pc # "idle") ~> (pc = "idle" /\ Num(Len(users)) = target)

\* C6: after every tick the population size lies in [0, maxUsers], and when
\* the pattern is linear it is at least initialUsers.
C6_PopulationWithinBounds ==
    TickReturned =>
        /\ InRange(Num(Len(users)), Num(0), cfg.maxUsers)
        /\ cfg.pattern = "linear" =>
              JGe(Num(Len(users)), Default(cfg.initialUsers, cfg.baseLoad))

\* C8: reset can be called in every state between ticks and raises no fault,
\* and right after it the population is empty and the linear time origin is
\* unset.
C8_ResetRestoresInitialState ==
    /\ pc = "idle" => ENABLED resetSimulation
    /\ lastOp = "reset" =>
          /\ ~fault
          /\ pc = "idle"
          /\ usersDefined
          /\ users = <<>>
          /\ simulationStartTime = Null

\* a reset that followed a linear tick, which had set the origin
C8_Witness ==
    /\ lastOp = "reset"
    /\ cfg.pattern = "linear"
    /\ JGe(target, Num(1))
    /\ now > 30
    /\ users = <<>>

\* the step that enters a tick
TickEntered == pc = "idle" /\ lastOp' = "tick"

\* C9: the linear time origin is unset after every reset and after every tick
\* whose pattern is not linear; over an unbroken run of linear ticks it is the
\* clock value of the run's first tick, which therefore computes its target
\* from elapsed time zero.
C9_OriginFollowsLinearRun ==
    [][ /\ lastOp' = "reset" => simulationStartTime' = Null
        /\ (TickEntered /\ cfg'.pattern # "linear") => simulationStartTime' = Null
        /\ (TickEntered /\ cfg'.pattern = "linear" /\ simulationStartTime = Null) =>
              /\ simulationStartTime' = Num(now')
              /\ target' = MathMin(cfg'.maxUsers, MathFloor(cfg'.baseLoad))
        /\ (TickEntered /\ cfg'.pattern = "linear" /\ simulationStartTime # Null) =>
              simulationStartTime' = simulationStartTime
        /\ pc # "idle" => simulationStartTime' = simulationStartTime
      ]_vars

\* a linear tick, later than the first clock reading, that started a new run
C9_Witness ==
    /\ TickReturned
    /\ cfg.pattern = "linear"
    /\ now > 30
    /\ simulationStartTime = Num(now)
    /\ Len(users) > 0

-----------------------------------------------------------------------------
(* generateLoad('linear', ...) at two times of one profile *)

\* two times in seconds, the earlier first: within the first minutes, at the
\* end of the first day and past it
PairTimes == {0, 30, 60, 90, 86340, 86400, 86460}

LinearProfiles == {pr \in LoadProfiles : pr.pattern = "linear"}

LinearPairCalls ==
    {[fn |-> "generateLoadTwice", t1 |-> Num(ts[1]), t2 |-> Num(ts[2]),
      profile |-> pr] :
        ts \in {ts \in PairTimes \X PairTimes : ts[1] <= ts[2]},
        pr \in LinearProfiles}

ApplyLoadTwice ==
    /\ call.fn = "generateLoadTwice"
    /\ ret = NoRet
    /\ ret' = [t  |-> "pair",
               r1 |-> generateLoad("linear", call.t1, call.profile,
                                   Env(Num(0), Num(0), Num(0))),
               r2 |-> generateLoad("linear", call.t2, call.profile,
                                   Env(Num(0), Num(0), Num(0)))]
    /\ UNCHANGED << ctxVars, call >>

LinearPairSpec == PureInit(LinearPairCalls) /\ [][ApplyLoadTwice]_vars

\* the day a time in seconds falls in
DayOf(time) == MathFloor(JDiv(time, Num(SecondsPerDay)))

\* C11 as stated: for every profile and all times 0 <= t1 <= t2,
\* generateLoad('linear', t1) <= generateLoad('linear', t2), and a target that
\* has reached maxUsers is maxUsers at every later time.
C11_LinearNonDecreasing ==
    Returned("generateLoadTwice") =>
        /\ JLe(ret.r1, ret.r2)
        /\ ret.r1 = call.profile.maxUsers => ret.r2 = call.profile.maxUsers

\* C11: for every profile and all times 0 <= t1 <= t2 of the same day (the
\* same multiple of 86400 seconds), generateLoad('linear', t1) <=
\* generateLoad('linear', t2), and a target that has reached maxUsers is
\* maxUsers at every later time of that day; at each day boundary the
\* target starts again from initialUsers.
C11_LinearNonDecreasingWithinDay ==
    Returned("generateLoadTwice") =>
        /\ DayOf(call.t1) = DayOf(call.t2) =>
              /\ JLe(ret.r1, ret.r2)
              /\ ret.r1 = call.profile.maxUsers => ret.r2 = call.profile.maxUsers
        /\ JMod(call.t1, Num(SecondsPerDay)) = Num(0) =>
              ret.r1 = MathFloor(Default(call.profile.initialUsers,
                                         call.profile.baseLoad))

\* a target that grew within one day up to maxUsers
C11_Witness ==
    /\ Returned("generateLoadTwice")
    /\ DayOf(call.t1) = DayOf(call.t2)
    /\ JLt(call.t1, call.t2)
    /\ JLt(ret.r1, ret.r2)
    /\ ret.r2 = call.profile.maxUsers

-----------------------------------------------------------------------------
(* Claims about the population over successive ticks *)

\* a step of a tick: its entry, or one evaluation of a loop condition
TickStep == lastOp' = "tick" /\ (pc # "idle" \/ pc' # "idle")

\* C12: a tick whose target count equals the size the population already has
\* (as when the tick is called a second time with the same config and no
\* elapsed time) changes nothing in any of its steps: the population keeps
\* its size, and every member keeps its id and type.
C12_SameTargetChangesNothing ==
    [][ (TickStep /\ Num(Len(users)) = target') =>
            /\ Len(users') = Len(users)
            /\ \A i \in 1..Len(users) :
                  /\ users'[i].id = users[i].id
                  /\ users'[i].type = users[i].type
      ]_vars

\* a tick of a linear run, two clock readings after the run's first, has
\* returned with the population at maxUsers, the target of every tick of the
\* run once the cap is reached
C12_Witness ==
    /\ TickReturned
    /\ cfg.pattern = "linear"
    /\ JGe(JSub(Num(now), simulationStartTime), Num(60))
    /\ target = cfg.maxUsers
    /\ Num(Len(users)) = target
    /\ Len(users) > 0

\* C13: within one run (between resets) every session a tick creates gets an
\* id greater than the id of every session created before it in that run,
\* shrink-then-grow sequences included.
C13_NewIdAboveEveryEarlierId ==
    [][ Len(users') > Len(users) => users'[Len(users')].id > issued ]_vars

-----------------------------------------------------------------------------
(* scaleReplicas at two values of one average *)

\* utilization averages that are numbers
NumberAverages == {Num(0), Num(40), Num(50), Num(60), Num(80), Num(100)}

\* the average named by `varied` takes the values a1 <= a2, the other average
\* is `other` in both calls
ScalePairCalls ==
    {[fn |-> "scaleReplicasTwice", currentReplicas |-> Num(r), varied |-> v,
      a1 |-> as[1], a2 |-> as[2], other |-> b, config |-> c] :
        r \in {0, 1, 2, 4}, v \in {"avgCpu", "avgMemory"},
        as \in {as \in NumberAverages \X NumberAverages : JLe(as[1], as[2])},
        b \in {Num(0), Num(80), Num(100)}, c \in ScaleConfigs}

ScaleAt(a) ==
    IF call.varied = "avgCpu"
    THEN scaleReplicas(call.currentReplicas, a, call.other, Num(0), call.config)
    ELSE scaleReplicas(call.currentReplicas, call.other, a, Num(0), call.config)

ApplyScaleTwice ==
    /\ call.fn = "scaleReplicasTwice"
    /\ ret = NoRet
    /\ ret' = [t |-> "pair", r1 |-> ScaleAt(call.a1), r2 |-> ScaleAt(call.a2)]
    /\ UNCHANGED << ctxVars, call >>

ScalePairSpec == PureInit(ScalePairCalls) /\ [][ApplyScaleTwice]_vars

C14_FlatInsideBounds ==
    /\ Returned("scaleReplicasTwice")
    /\ JLt(call.a1, call.a2)
    /\ ret.r1 = ret.r2
    /\ JLt(call.config.minReplicas, ret.r1)
    /\ JLt(ret.r1, call.config.maxReplicas)
    /\ JGt(call.config.cpuThreshold, Num(0))

\* C15: whenever avgCpu = cpuThreshold, avgMemory <= memoryThreshold and
\* minReplicas <= currentReplicas <= maxReplicas, scaleReplicas returns
\* currentReplicas: no change at the exact threshold.
C15_NoChangeAtThreshold ==
    (/\ Returned("scaleReplicas")
     /\ call.avgCpu = call.config.cpuThreshold
     /\ JLe(call.avgMemory, call.config.memoryThreshold)
     /\ InRange(call.currentReplicas, call.config.minReplicas,
                call.config.maxReplicas))
        => ret = call.currentReplicas

\* the same for thresholds above 0
C15_NoChangeAtPositiveThreshold ==
    (/\ Returned("scaleReplicas")
     /\ call.avgCpu = call.config.cpuThreshold
     /\ JGt(call.config.cpuThreshold, Num(0))
     /\ JLe(call.avgMemory, call.config.memoryThreshold)
     /\ InRange(call.currentReplicas, call.config.minReplicas,
                call.config.maxReplicas))
        => ret = call.currentReplicas

-----------------------------------------------------------------------------
(* parseCPU, parseMemory *)

\* the longest limit string handed to the parsers
MaxStrLen == 3

LimitChars == {"0", "1", "-", "m", "G", "M", "i", "x"}

LimitStrings == UNION {[1..k -> LimitChars] : k \in 0..MaxStrLen}

\* a limit is a string, or undefined for a pod that declares no limit
ParseCalls ==
    {[fn |-> f, arg |-> a] :
        f \in {"parseCPU", "parseMemory"},
        a \in {[t |-> "string", s |-> str] : str \in LimitStrings} \cup {Undef}}

\* the TypeError of `undefined.endsWith`
Thrown == [t |-> "throw"]

ApplyParse ==
    /\ call.fn \in {"parseCPU", "parseMemory"}
    /\ ret = NoRet
    /\ ret' = IF Missing(call.arg) THEN Thrown
              ELSE IF call.fn = "parseCPU" THEN parseCPU(call.arg.s)
              ELSE parseMemory(call.arg.s)
    /\ UNCHANGED << ctxVars, call >>

ParseSpec == PureInit(ParseCalls) /\ [][ApplyParse]_vars

\* C16: parseCPU and parseMemory raise no fault, and they return 0 for a
\* limit string that has no leading integer.
C16_MalformedParsesToZero ==
    (Returned("parseCPU") \/ Returned("parseMemory")) =>
        /\ ret # Thrown
        /\ (~Missing(call.arg) /\ IsNaN(parseInt(call.arg.s))) => ret = Num(0)

\* for a string the parsers raise no fault and return a number or NaN: NaN
\* exactly when the string has no leading integer
C16_MalformedParsesToNaN ==
    ((Returned("parseCPU") \/ Returned("parseMemory")) /\ ~Missing(call.arg)) =>
        /\ ret # Thrown
        /\ IsNaN(ret) <=> IsNaN(parseInt(call.arg.s))

\* !pod || !users || !config || !config.userResources, of the call made
ArgumentMissing ==
    \/ Missing(call.pod)
    \/ Missing(call.users)
    \/ Missing(call.config)
    \/ Missing(call.config.userResources)

\* C17: when the pod, the users, the config or config.userResources is
\* undefined or null, simulatePodUsage returns a zeroed record (cpu 0,
\* memory 0, activeUsers 0) tagged with the pod's name, or with 'unknown'
\* when the pod is missing (or has no name).
C17_MissingArgumentZeroedRecord ==
    (Returned("simulatePodUsage") /\ ArgumentMissing) =>
        /\ ret.t = "zeroed"
        /\ ret.cpu = Num(0)
        /\ ret.memory = Num(0)
        /\ ret.activeUsers = 0
        /\ ret.podName = IF Missing(call.pod) \/ call.pod.name = NoPod
                         THEN UnknownPod ELSE call.pod.name

\* a named pod that holds a user, and a config without userResources
C17_Witness ==
    /\ Returned("simulatePodUsage")
    /\ ~Missing(call.pod)
    /\ ~Missing(call.users)
    /\ call.config = ConfigWithoutResources
    /\ FilterByPod(call.users.list, call.pod.name) # <<>>
    /\ ret.t = "zeroed"
    /\ ret.podName = call.pod.name

-----------------------------------------------------------------------------
(* Claims about the shares of the pods *)

\* the number of users of the returned population assigned to a pod
AssignedTo(pod) == Len(FilterByPod(ret.list, pod.name))

\* C18: for N users and P > 0 pods with distinct names, distributeUsers
\* assigns to no pod more than floor(N/P) + 1 users and to every pod at least
\* floor(N/P) users.
C18_SharesEven ==
    (Returned("distributeUsers") /\ Len(call.pods) > 0) =>
        LET N == Len(call.users)
            P == Len(call.pods)
        IN  \A i \in 1..P :
                /\ AssignedTo(call.pods[i]) <= (N \div P) + 1
                /\ AssignedTo(call.pods[i]) >= N \div P

\* the upper half of C18 alone: no pod is assigned more than floor(N/P) + 1
C18_SharesBelowMaximum ==
    (Returned("distributeUsers") /\ Len(call.pods) > 0) =>
        \A i \in 1..Len(call.pods) :
            AssignedTo(call.pods[i])
                <= (Len(call.users) \div Len(call.pods)) + 1

\* pod i of the call is filled before pod j: its metrics.cpu (missing = 0) is
\* lower, or equal with i earlier in the input order
FilledBefore(i, j) ==
    LET a == IF Missing(call.pods[i].cpu) THEN Num(0) ELSE call.pods[i].cpu
        b == IF Missing(call.pods[j].cpu) THEN Num(0) ELSE call.pods[j].cpu
    IN  JLt(a, b) \/ (a = b /\ i < j)

\* C19: in distributeUsers with P > 0 pods, if pod A's metrics.cpu (missing
\* treated as 0) is strictly lower than pod B's, or equal with A earlier in
\* the input order, then B is assigned a user only if A holds capacityPerPod
\* users, and A is assigned at least as many users as B.
C19_LeastLoadedFirst ==
    (Returned("distributeUsers") /\ Len(call.pods) > 0) =>
        LET capacityPerPod == (Len(call.users) \div Len(call.pods)) + 1
        IN  \A i, j \in 1..Len(call.pods) :
                FilledBefore(i, j) =>
                    /\ AssignedTo(call.pods[j]) > 0 =>
                          AssignedTo(call.pods[i]) = capacityPerPod
                    /\ AssignedTo(call.pods[i]) >= AssignedTo(call.pods[j])

\* the pod given second has the lower metrics.cpu and is full, and the pod
\* given first has received the remaining users
C19_Witness ==
    /\ Returned("distributeUsers")
    /\ Len(call.pods) = 2
    /\ FilledBefore(2, 1)
    /\ JLt(Num(0), call.pods[1].cpu)
    /\ AssignedTo(call.pods[1]) > 0
    /\ AssignedTo(call.pods[2]) > AssignedTo(call.pods[1])

-----------------------------------------------------------------------------
(* calculateAverageUsage, and the cycle distributeUsers -> simulatePodUsage  *)
(* of every pod -> calculateAverageUsage                                     *)

\* the reduce of calculateAverageUsage over the first k records
RECURSIVE UsageTotals(_, _)
UsageTotals(podsMetrics, k) ==
    IF k = 0 THEN [cpu |-> Num(0), memory |-> Num(0), totalUsers |-> 0]
    ELSE LET acc    == UsageTotals(podsMetrics, k - 1)
             metric == podsMetrics[k]
         IN  [cpu        |-> JAdd(acc.cpu, metric.cpu),
              memory     |-> JAdd(acc.memory, metric.memory),
              totalUsers |-> acc.totalUsers + metric.activeUsers]

\* calculateAverageUsage that averages totalUsers as it averages cpu and memory
calculateAverageUsageMeanUsers(podsMetrics) ==
    IF Len(podsMetrics) = 0
    THEN [cpu |-> Num(0), memory |-> Num(0), totalUsers |-> 0]
    ELSE LET totals == UsageTotals(podsMetrics, Len(podsMetrics))
         IN  [cpu        |-> JDiv(totals.cpu, Num(Len(podsMetrics))),
              memory     |-> JDiv(totals.memory, Num(Len(podsMetrics))),
              totalUsers |-> totals.totalUsers \div Len(podsMetrics)]

calculateAverageUsage(podsMetrics) ==
    IF Len(podsMetrics) = 0
    THEN [cpu |-> Num(0), memory |-> Num(0), totalUsers |-> 0]
    ELSE LET totals == UsageTotals(podsMetrics, Len(podsMetrics))
         IN  [cpu        |-> JDiv(totals.cpu, Num(Len(podsMetrics))),
              memory     |-> JDiv(totals.memory, Num(Len(podsMetrics))),
              totalUsers |-> totals.totalUsers]

\* the limit strings of the pods of a cycle: "500m" / "1Gi", or "0m" / "x"
CycleLimits ==
    {[cpu |-> <<"5", "0", "0", "m">>, memory |-> <<"1", "G", "i">>],
     [cpu |-> <<"0", "m">>, memory |-> <<"x">>]}

\* pods with distinct names, each with its last metrics.cpu and its limits
CyclePods(ps, limits) ==
    [i \in 1..Len(ps) |->
        [PodWithLimits(ps[i].name, limits.cpu, limits.memory)
            EXCEPT !.cpu = ps[i].cpu]]

CycleCalls ==
    {[fn |-> "cycle", users |-> us, pods |-> CyclePods(ps, limits),
      config |-> UsageConfig(c, c)] :
        us \in DistributePopulations, ps \in PodLists, limits \in CycleLimits,
        c \in {50, 100}}

ApplyCycle ==
    /\ call.fn = "cycle"
    /\ ret = NoRet
    /\ LET assigned == distributeUsers(call.users, call.pods)
           podsMetrics ==
               [i \in 1..Len(call.pods) |->
                   simulatePodUsage(call.pods[i],
                                    [t |-> "array", list |-> assigned],
                                    call.config)]
       IN  ret' = [t |-> "cycle", users |-> assigned, podsMetrics |-> podsMetrics,
                   average |-> calculateAverageUsage(podsMetrics)]
    /\ UNCHANGED << ctxVars, call >>

CycleSpec == PureInit(CycleCalls) /\ [][ApplyCycle]_vars

=============================================================================
